---- MODULE Spec2Model ----
(***************************************************************************)
(* Model of the Slack thread summarizer bot.                               *)
(*   src/llm_service.py           LLMService (backend selection, calls)    *)
(*   src/slack_bot_summarizer.py  handle_app_mentions, the transcript      *)
(*                                builder, the participant extractor and   *)
(*                                the Notion block conversion              *)
(*                                                                         *)
(* Python strings are sequences of one-character strings.  The parser of   *)
(* this toolchain accepts ASCII only, so the Japanese characters of the    *)
(* headings are written with ASCII letters; the code treats them as        *)
(* ordinary characters that are neither markers nor whitespace.            *)
(***************************************************************************)
EXTENDS Integers, Sequences, FiniteSets, TLC

VARIABLES
    env,              \* credentials read from the environment in LLMService.__init__
    svc,              \* the process-wide LLMService object: provider and both clients
    lastCall,         \* SpecLLM: the most recent call on the service and its outcome
    notionConfigured, \* NOTION_API_KEY and NOTION_DATABASE_ID are both set
    request_times,    \* keys of the process-wide request-start-time table
    hs,               \* per event: position and locals of handle_app_mentions
    messages,         \* SpecTranscript: the raw thread messages of one request
    directory,        \* SpecTranscript: the ids users_info resolves in this request
    lookups,          \* SpecTranscript: users_info calls made so far, per id
    pcT,              \* SpecTranscript: format, extract or done
    fmt,              \* locals of format_messages_for_llm
    thread_text,      \* the transcript format_messages_for_llm returned
    ext,              \* locals of extract_participants_with_email
    summary,          \* SpecBlocks: the summary text given to the conversion
    pcB,              \* SpecBlocks: loop or done
    cb,               \* locals of convert_summary_to_notion_blocks
    participants,     \* SpecProperties: the participants given to save_summary_to_notion
    pcP,              \* SpecProperties: keywords, emails, names or done
    props             \* locals of save_summary_to_notion: the lists and the property map

llmVars == <<env, svc, lastCall>>
handlerVars == <<notionConfigured, request_times, hs>>
transcriptVars == <<messages, directory, lookups, pcT, fmt, thread_text, ext>>
blockVars == <<summary, pcB, cb>>
propVars == <<participants, pcP, props>>
vars == <<env, svc, lastCall, notionConfigured, request_times, hs,
          messages, directory, lookups, pcT, fmt, thread_text, ext,
          summary, pcB, cb, participants, pcP, props>>

(***************************************************************************)
(* LLMService                                                              *)
(***************************************************************************)

None == "None"

\* the provider names the service supports (llm_service.py:72)
SupportedProviders == {"claude", "azure_openai"}

\* names a caller may pass to switch_provider
ProviderArgs == {"claude", "azure_openai", "Claude", "AZURE_OPENAI", "gemini"}

\* str.lower() on the names above
Lower(p) ==
    CASE p = "Claude" -> "claude"
      [] p = "AZURE_OPENAI" -> "azure_openai"
      [] OTHER -> p

Envs == [anthropic_api_key : BOOLEAN,
         azure_openai_api_key : BOOLEAN,
         azure_openai_endpoint : BOOLEAN]

\* _initialize_client: creates the client of self.provider or raises
InitializeClient(s, e) ==
    IF s.provider = "claude"
    THEN IF ~e.anthropic_api_key
         THEN [svc |-> s, raised |-> "ValueError"]
         ELSE [svc |-> [s EXCEPT !.claude_client = TRUE], raised |-> None]
    ELSE IF s.provider = "azure_openai"
    THEN IF ~e.azure_openai_api_key \/ ~e.azure_openai_endpoint
         THEN [svc |-> s, raised |-> "ValueError"]
         ELSE [svc |-> [s EXCEPT !.azure_openai_client = TRUE], raised |-> None]
    ELSE [svc |-> s, raised |-> "ValueError"]

\* __init__: the service object a constructor call leaves behind
NewService(p, e) ==
    InitializeClient([provider |-> Lower(p), claude_client |-> FALSE,
                      azure_openai_client |-> FALSE], e)

\* a switch_provider that forgets the supported-name test
SwitchProviderUnchecked(s, e, p) ==
    IF Lower(p) # s.provider
    THEN InitializeClient([s EXCEPT !.provider = Lower(p)], e)
    ELSE [svc |-> s, raised |-> None]

\* switch_provider(provider)
SwitchProvider(s, e, p) ==
    IF Lower(p) \notin SupportedProviders
    THEN [svc |-> s, raised |-> "ValueError"]
    ELSE IF Lower(p) # s.provider
    THEN InitializeClient([s EXCEPT !.provider = Lower(p)], e)
    ELSE [svc |-> s, raised |-> None]

\* the backend generate_summary / extract_keywords dispatch to
DispatchBackend(s) == IF s.provider = "claude" THEN "claude" ELSE "azure_openai"

\* the client handle of a backend
ClientOf(s, b) == IF b = "claude" THEN s.claude_client ELSE s.azure_openai_client

\* _generate_with_claude / _generate_with_azure_openai: apiOk is the
\* outcome of the remote API call; a missing client raises before the call
Generate(s, apiOk) ==
    LET b == DispatchBackend(s) IN
    IF ~ClientOf(s, b) THEN [backend |-> b, raised |-> "AttributeError"]
    ELSE IF apiOk THEN [backend |-> b, raised |-> None]
    ELSE [backend |-> b, raised |-> "APIError"]

NoCall == [op |-> "none", arg |-> None, pre |-> None, raised |-> None, backend |-> None]

\* concurrent deliveries of the app_mention event
Events == {1, 2}

\* request ids f"{channel_id}_{thread_ts}_{int(time.time())}" in use
RequestIds == {"r1", "r2"}

\* kinds of message text the handler sends
Text(kind, saved, footer) == [kind |-> kind, saved |-> saved, footer |-> footer]

NoText == Text(None, FALSE, None)

\* the handler's locals before an event is delivered
IdleHandler ==
    [pc |-> "idle", threaded |-> FALSE, save_to_notion |-> FALSE,
     switch_to |-> None, request_id |-> None,
     statusPosts |-> 0, helpPosts |-> 0, statusMsg |-> NoText,
     sayRaised |-> FALSE, fetchRaised |-> FALSE, authored |-> FALSE, updates |-> <<>>, calls |-> {}, genBy |-> None, genRaised |-> None,
     kwRaised |-> None, notionCalls |-> 0, notionResult |-> None,
     notion_url |-> None, response_text |-> NoText, exc |-> None]

InitHandlerIdle ==
    /\ notionConfigured = FALSE
    /\ request_times = {}
    /\ hs = [e \in Events |-> IdleHandler]

\* no request is being formatted
InitTranscriptIdle ==
    /\ messages = <<>>
    /\ directory = {}
    /\ lookups = <<>>
    /\ pcT = "idle"
    /\ fmt = <<>>
    /\ thread_text = <<>>
    /\ ext = <<>>

\* no summary is being converted
InitBlocksIdle ==
    /\ summary = <<>>
    /\ pcB = "idle"
    /\ cb = <<>>

\* no property map is being built
InitPropsIdle ==
    /\ participants = <<>>
    /\ pcP = "idle"
    /\ props = <<>>

InitLLM ==
    /\ InitHandlerIdle
    /\ InitTranscriptIdle
    /\ InitBlocksIdle
    /\ InitPropsIdle
    /\ env \in Envs
    /\ \E p \in SupportedProviders :
          /\ NewService(p, env).raised = None
          /\ svc = NewService(p, env).svc
    /\ lastCall = NoCall

CallSwitchProvider(p) ==
    LET r == SwitchProvider(svc, env, p) IN
    /\ svc' = r.svc
    /\ lastCall' = [op |-> "switch_provider", arg |-> p, pre |-> svc,
                    raised |-> r.raised, backend |-> None]
    /\ UNCHANGED env

CallGenerateSummary(apiOk) ==
    LET r == Generate(svc, apiOk) IN
    /\ lastCall' = [op |-> "generate_summary", arg |-> None, pre |-> svc,
                    raised |-> r.raised, backend |-> r.backend]
    /\ UNCHANGED <<env, svc>>

CallExtractKeywords(apiOk) ==
    LET r == Generate(svc, apiOk) IN
    /\ lastCall' = [op |-> "extract_keywords", arg |-> None, pre |-> svc,
                    raised |-> r.raised, backend |-> r.backend]
    /\ UNCHANGED <<env, svc>>

NextLLM ==
    /\ \/ \E p \in ProviderArgs : CallSwitchProvider(p)
       \/ \E ok \in BOOLEAN : CallGenerateSummary(ok)
       \/ \E ok \in BOOLEAN : CallExtractKeywords(ok)
    /\ UNCHANGED handlerVars
    /\ UNCHANGED transcriptVars
    /\ UNCHANGED blockVars
    /\ UNCHANGED propVars

SpecLLM == InitLLM /\ [][NextLLM]_vars

(***************************************************************************)
(* handle_app_mentions, one step per collaborator call                     *)
(***************************************************************************)

H(e) == hs[e]

\* hs with the locals of event e replaced
SetH(e, r) == [hs EXCEPT ![e] = r]

\* lines 54-68: read the event, record the request start time, scan the
\* text for the save token and the use-backend tokens
Receive(e, threaded, save, sw, rid) ==
    /\ H(e).pc \in {"idle", "done", "raised"}
    /\ request_times' = request_times \cup {rid}
    /\ hs' = SetH(e, [IdleHandler EXCEPT !.pc = "switch", !.threaded = threaded,
                         !.save_to_notion = save, !.switch_to = sw,
                         !.request_id = rid])
    /\ UNCHANGED <<env, svc, lastCall, notionConfigured>>

\* lines 70-76 with llm_service.py:72-77: the token test of the handler,
\* the name test of switch_provider and its read of self.provider; the
\* assignment of line 78 is a later step of the thread
SwitchTest(e) ==
    /\ H(e).pc = "switch"
    /\ hs' = SetH(e,
          IF H(e).switch_to = None THEN [H(e) EXCEPT !.pc = "say"]
          ELSE IF Lower(H(e).switch_to) \notin SupportedProviders
          THEN [H(e) EXCEPT !.pc = "raised", !.exc = "ValueError"]
          ELSE IF Lower(H(e).switch_to) # svc.provider
          THEN [H(e) EXCEPT !.pc = "assign"]
          ELSE [H(e) EXCEPT !.pc = "say"])
    /\ UNCHANGED <<env, svc, lastCall, notionConfigured, request_times>>

\* llm_service.py:78: self.provider = provider.lower()
SwitchAssign(e) ==
    /\ H(e).pc = "assign"
    /\ svc' = [svc EXCEPT !.provider = Lower(H(e).switch_to)]
    /\ hs' = SetH(e, [H(e) EXCEPT !.pc = "init_client"])
    /\ UNCHANGED <<env, lastCall, notionConfigured, request_times>>

\* llm_service.py:79 with 41-47: _initialize_client inside switch_provider
\* reads self.provider for its first test and runs the claude branch; its
\* ValueError leaves the handler uncaught (the call is outside the try)
SwitchInit(e) ==
    /\ H(e).pc = "init_client"
    /\ IF svc.provider = "claude"
       THEN LET r == InitializeClient(svc, env) IN
            /\ svc' = r.svc
            /\ hs' = SetH(e, IF r.raised = None
                             THEN [H(e) EXCEPT !.pc = "say"]
                             ELSE [H(e) EXCEPT !.pc = "raised", !.exc = r.raised])
       ELSE /\ hs' = SetH(e, [H(e) EXCEPT !.pc = "init_elif"])
            /\ UNCHANGED svc
    /\ UNCHANGED <<env, lastCall, notionConfigured, request_times>>

\* llm_service.py:49-63: the second read of self.provider, the
\* azure_openai branch, and the else branch taken when neither read found
\* its name
SwitchInitElif(e) ==
    /\ H(e).pc = "init_elif"
    /\ IF svc.provider = "azure_openai"
       THEN LET r == InitializeClient(svc, env) IN
            /\ svc' = r.svc
            /\ hs' = SetH(e, IF r.raised = None
                             THEN [H(e) EXCEPT !.pc = "say"]
                             ELSE [H(e) EXCEPT !.pc = "raised", !.exc = r.raised])
       ELSE /\ hs' = SetH(e, [H(e) EXCEPT !.pc = "raised", !.exc = "ValueError"])
            /\ UNCHANGED svc
    /\ UNCHANGED <<env, lastCall, notionConfigured, request_times>>

\* lines 82-92 and 178-188: post the status message of a threaded mention,
\* or the help message otherwise; a failing say() leaves the handler
Say(e, ok) ==
    /\ H(e).pc = "say"
    /\ hs' = SetH(e,
          IF ~ok THEN [H(e) EXCEPT !.pc = "raised", !.exc = "SlackApiError",
                                  !.sayRaised = TRUE]
          ELSE IF H(e).threaded
          THEN [H(e) EXCEPT !.pc = "fetch", !.statusPosts = @ + 1,
                            !.statusMsg = Text("processing", FALSE, None)]
          ELSE [H(e) EXCEPT !.pc = "done", !.helpPosts = @ + 1])
    /\ UNCHANGED <<env, svc, lastCall, notionConfigured, request_times>>

\* a fetch whose failure is swallowed: the handler goes on with no messages
FetchThreadSwallow(e, ok, authored) ==
    /\ H(e).pc = "fetch"
    /\ hs' = SetH(e, [H(e) EXCEPT !.pc = "format", !.fetchRaised = ~ok,
                                  !.authored = ok /\ authored,
                                  !.calls = @ \cup {"conversations_replies"}])
    /\ UNCHANGED <<env, svc, lastCall, notionConfigured, request_times>>

\* lines 94-98 with get_thread_messages: conversations_replies; authored
\* tells whether the thread returned has a message with a user and no
\* bot_id, the only messages users_info is called for (lines 238, 303)
FetchThread(e, ok, authored) ==
    /\ H(e).pc = "fetch"
    /\ hs' = SetH(e,
          IF ok THEN [H(e) EXCEPT !.pc = "format", !.authored = authored,
                                 !.calls = @ \cup {"conversations_replies"}]
          ELSE [H(e) EXCEPT !.pc = "except", !.exc = "SlackApiError",
                            !.fetchRaised = TRUE,
                            !.calls = @ \cup {"conversations_replies"}])
    /\ UNCHANGED <<env, svc, lastCall, notionConfigured, request_times>>

\* lines 241-246, 280 and 312-316: users_info is called for the messages
\* that pass the test of lines 238 and 303 only
LookupCalls(e) == IF H(e).authored THEN {"users_info"} ELSE {}

\* lines 100-109: get_channel_info and format_messages_for_llm; both catch
\* the failures of their collaborator calls
FormatThread(e) ==
    /\ H(e).pc = "format"
    /\ hs' = SetH(e, [H(e) EXCEPT !.pc = "generate", !.calls = @ \cup LookupCalls(e)])
    /\ UNCHANGED <<env, svc, lastCall, notionConfigured, request_times>>

\* a handler that goes on to build the response after a failed generation
GenerateSummaryStepSwallow(e, apiOk) ==
    /\ H(e).pc = "generate"
    /\ LET r == Generate(svc, apiOk) IN
       hs' = SetH(e,
          IF r.raised = None
          THEN [H(e) EXCEPT !.pc = "keywords", !.genBy = r.backend,
                            !.calls = @ \cup {"generate_summary"} \cup LookupCalls(e)]
          ELSE [H(e) EXCEPT !.pc = "respond", !.genRaised = r.raised,
                            !.calls = @ \cup {"generate_summary"}])
    /\ UNCHANGED <<env, svc, lastCall, notionConfigured, request_times>>

\* lines 111-120: generate_summary, then extract_participants_with_email
GenerateSummaryStep(e, apiOk) ==
    /\ H(e).pc = "generate"
    /\ LET r == Generate(svc, apiOk) IN
       hs' = SetH(e,
          IF r.raised = None
          THEN [H(e) EXCEPT !.pc = "keywords", !.genBy = r.backend,
                            !.calls = @ \cup {"generate_summary"} \cup LookupCalls(e)]
          ELSE [H(e) EXCEPT !.pc = "except", !.genRaised = r.raised,
                            !.exc = r.raised,
                            !.calls = @ \cup {"generate_summary"}])
    /\ UNCHANGED <<env, svc, lastCall, notionConfigured, request_times>>

\* lines 122-129 and 146-147: the save test and extract_keywords, whose
\* failure is caught by the inner try
ExtractKeywordsStep(e, apiOk) ==
    /\ H(e).pc = "keywords"
    /\ IF H(e).save_to_notion /\ notionConfigured
       THEN LET r == Generate(svc, apiOk) IN
            hs' = SetH(e,
               IF r.raised = None
               THEN [H(e) EXCEPT !.pc = "save_notion",
                                 !.calls = @ \cup {"extract_keywords"}]
               ELSE [H(e) EXCEPT !.pc = "respond", !.kwRaised = r.raised,
                                 !.calls = @ \cup {"extract_keywords"}])
       ELSE hs' = SetH(e, [H(e) EXCEPT !.pc = "respond"])
    /\ UNCHANGED <<env, svc, lastCall, notionConfigured, request_times>>

\* outcomes of the create-page request of save_summary_to_notion
NotionOutcomes == {"page_url", "page_without_url", "non_success", "transport_error"}

\* the value save_summary_to_notion returns (lines 509-523)
NotionResponse(outcome) ==
    IF outcome = "page_url" THEN [json |-> TRUE, url |-> "url"]
    ELSE IF outcome = "page_without_url" THEN [json |-> TRUE, url |-> None]
    ELSE [json |-> FALSE, url |-> None]

\* a handler that sends the request again after a failed save
SaveToNotionRetry(e, outcome) ==
    /\ H(e).pc = "save_notion"
    /\ LET resp == NotionResponse(outcome) IN
       hs' = SetH(e,
          IF ~resp.json
          THEN [H(e) EXCEPT !.notionCalls = @ + 1, !.notionResult = outcome]
          ELSE [H(e) EXCEPT !.pc = "respond", !.notionCalls = @ + 1,
                            !.notionResult = outcome,
                            !.notion_url = IF resp.url # None THEN resp.url ELSE None])
    /\ UNCHANGED <<env, svc, lastCall, notionConfigured, request_times>>

\* a handler that treats a failed save as a failure of the event
SaveToNotionAbort(e, outcome) ==
    /\ H(e).pc = "save_notion"
    /\ LET resp == NotionResponse(outcome) IN
       hs' = SetH(e,
          IF resp.url = None
          THEN [H(e) EXCEPT !.pc = "except", !.exc = "NotionError",
                            !.notionCalls = @ + 1, !.notionResult = outcome]
          ELSE [H(e) EXCEPT !.pc = "respond", !.notionCalls = @ + 1,
                            !.notionResult = outcome, !.notion_url = resp.url])
    /\ UNCHANGED <<env, svc, lastCall, notionConfigured, request_times>>

\* lines 131-145: save_summary_to_notion and the test of its response
SaveToNotion(e, outcome) ==
    /\ H(e).pc = "save_notion"
    /\ LET resp == NotionResponse(outcome) IN
       hs' = SetH(e, [H(e) EXCEPT !.pc = "respond", !.notionCalls = @ + 1,
                        !.notionResult = outcome,
                        !.notion_url = IF resp.json /\ resp.url # None
                                       THEN resp.url ELSE None])
    /\ UNCHANGED <<env, svc, lastCall, notionConfigured, request_times>>

\* lines 149-155: the response text, its footer read from llm_service
BuildResponse(e) ==
    /\ H(e).pc = "respond"
    /\ hs' = SetH(e, [H(e) EXCEPT !.pc = "update",
                        !.response_text = Text("summary", H(e).notion_url # None,
                                               svc.provider)])
    /\ UNCHANGED <<env, svc, lastCall, notionConfigured, request_times>>

\* lines 157-162: chat_update of the status message with the response
UpdateStatus(e, ok) ==
    /\ H(e).pc = "update"
    /\ hs' = SetH(e,
          IF ok
          THEN [H(e) EXCEPT !.pc = "timing", !.statusMsg = H(e).response_text,
                   !.updates = Append(@, [text |-> H(e).response_text, ok |-> TRUE])]
          ELSE [H(e) EXCEPT !.pc = "except", !.exc = "SlackApiError",
                   !.updates = Append(@, [text |-> H(e).response_text, ok |-> FALSE])])
    /\ UNCHANGED <<env, svc, lastCall, notionConfigured, request_times>>

\* line 165: if request_id in request_times
TimingTest(e) ==
    /\ H(e).pc = "timing"
    /\ hs' = SetH(e, IF H(e).request_id \in request_times
                     THEN [H(e) EXCEPT !.pc = "timing_read"]
                     ELSE [H(e) EXCEPT !.pc = "done"])
    /\ UNCHANGED <<env, svc, lastCall, notionConfigured, request_times>>

\* lines 166-167: request_times[request_id] is read and the duration
\* logged; a missing key is a KeyError inside the try
TimingRead(e) ==
    /\ H(e).pc = "timing_read"
    /\ hs' = SetH(e, IF H(e).request_id \in request_times
                     THEN [H(e) EXCEPT !.pc = "timing_del"]
                     ELSE [H(e) EXCEPT !.pc = "except", !.exc = "KeyError"])
    /\ UNCHANGED <<env, svc, lastCall, notionConfigured, request_times>>

\* line 168: del request_times[request_id]; a missing key is a KeyError
\* inside the try
TimingDelete(e) ==
    /\ H(e).pc = "timing_del"
    /\ IF H(e).request_id \in request_times
       THEN /\ request_times' = request_times \ {H(e).request_id}
            /\ hs' = SetH(e, [H(e) EXCEPT !.pc = "done"])
       ELSE /\ hs' = SetH(e, [H(e) EXCEPT !.pc = "except", !.exc = "KeyError"])
            /\ UNCHANGED request_times
    /\ UNCHANGED <<env, svc, lastCall, notionConfigured>>

\* lines 170-177: the except branch edits the status message to the error
HandleError(e, ok) ==
    /\ H(e).pc = "except"
    /\ hs' = SetH(e,
          IF ok
          THEN [H(e) EXCEPT !.pc = "done", !.statusMsg = Text("error", FALSE, None),
                   !.updates = Append(@, [text |-> Text("error", FALSE, None), ok |-> TRUE])]
          ELSE [H(e) EXCEPT !.pc = "raised",
                   !.updates = Append(@, [text |-> Text("error", FALSE, None), ok |-> FALSE])])
    /\ UNCHANGED <<env, svc, lastCall, notionConfigured, request_times>>

\* the backend tokens of the mention text: none, use_claude, use_azure
SwitchTokens == {None, "claude", "azure_openai"}

Init ==
    /\ env \in Envs
    /\ \E p \in SupportedProviders :
          /\ NewService(p, env).raised = None
          /\ svc = NewService(p, env).svc
    /\ lastCall = NoCall
    /\ notionConfigured \in BOOLEAN
    /\ request_times = {}
    /\ hs = [e \in Events |-> IdleHandler]
    /\ InitTranscriptIdle
    /\ InitBlocksIdle
    /\ InitPropsIdle

\* one step of the handler of event e
HandlerStep(e) ==
       \/ \E th \in BOOLEAN, sv \in BOOLEAN, sw \in SwitchTokens, rid \in RequestIds :
             Receive(e, th, sv, sw, rid)
       \/ SwitchTest(e)
       \/ SwitchAssign(e)
       \/ SwitchInit(e)
       \/ SwitchInitElif(e)
       \/ \E ok \in BOOLEAN : Say(e, ok)
       \/ \E ok \in BOOLEAN, authored \in BOOLEAN : FetchThread(e, ok, authored)
       \/ FormatThread(e)
       \/ \E ok \in BOOLEAN : GenerateSummaryStep(e, ok)
       \/ \E ok \in BOOLEAN : ExtractKeywordsStep(e, ok)
       \/ \E o \in NotionOutcomes : SaveToNotion(e, o)
       \/ BuildResponse(e)
       \/ \E ok \in BOOLEAN : UpdateStatus(e, ok)
       \/ TimingTest(e)
       \/ TimingRead(e)
       \/ TimingDelete(e)
       \/ \E ok \in BOOLEAN : HandleError(e, ok)

\* the events Spec delivers: one at a time, each processed to completion
\* before the next is received
SequentialEvents == {1}

Next ==
    /\ \E e \in SequentialEvents : HandlerStep(e)
    /\ UNCHANGED transcriptVars
    /\ UNCHANGED blockVars
    /\ UNCHANGED propVars

Spec == Init /\ [][Next]_vars

\* Bolt runs the listener of each delivered event on its own worker thread,
\* so the handlers of two events interleave at every collaborator call.
\* The concurrent runs are those of threaded mentions without the save
\* token whose Slack calls succeed; the model calls may still fail.
InitConcurrent ==
    /\ Init
    /\ notionConfigured = FALSE

ConcurrentStep(e) ==
       \/ \E sw \in SwitchTokens, rid \in RequestIds : Receive(e, TRUE, FALSE, sw, rid)
       \/ SwitchTest(e)
       \/ SwitchAssign(e)
       \/ SwitchInit(e)
       \/ SwitchInitElif(e)
       \/ Say(e, TRUE)
       \/ FetchThread(e, TRUE, TRUE)
       \/ FormatThread(e)
       \/ \E ok \in BOOLEAN : GenerateSummaryStep(e, ok)
       \/ ExtractKeywordsStep(e, TRUE)
       \/ BuildResponse(e)
       \/ UpdateStatus(e, TRUE)
       \/ TimingTest(e)
       \/ TimingRead(e)
       \/ TimingDelete(e)
       \/ HandleError(e, TRUE)

NextConcurrent ==
    /\ \E e \in Events : ConcurrentStep(e)
    /\ UNCHANGED transcriptVars
    /\ UNCHANGED blockVars
    /\ UNCHANGED propVars

SpecConcurrent == InitConcurrent /\ [][NextConcurrent]_vars

(***************************************************************************)
(* Properties of LLMService, checked under SpecLLM                         *)
(***************************************************************************)

\* C1: backend switching is transactional: a switch_provider call either
\* succeeds and leaves the requested backend active with an initialised
\* client, or fails and leaves the previously active backend, with its
\* usable client, active.
C1_SwitchTransactional ==
    lastCall.op = "switch_provider" =>
        IF lastCall.raised = None
        THEN /\ svc.provider = Lower(lastCall.arg)
             /\ ClientOf(svc, DispatchBackend(svc))
        ELSE /\ svc.provider = lastCall.pre.provider
             /\ ClientOf(svc, DispatchBackend(svc))

\* C10: a switch_provider call with an unsupported name raises and leaves
\* the provider name and both client handles as they were before the call.
C10_UnsupportedSwitchNoChange ==
    (lastCall.op = "switch_provider" /\ Lower(lastCall.arg) \notin SupportedProviders) =>
        /\ lastCall.raised = "ValueError"
        /\ svc = lastCall.pre

\* an unsupported name was passed to switch_provider and the call raised
C10_Witness ==
    /\ lastCall.op = "switch_provider"
    /\ lastCall.arg = "gemini"
    /\ lastCall.raised # None

(***************************************************************************)
(* Properties of handle_app_mentions, checked under Spec                   *)
(***************************************************************************)

Finished(e) == H(e).pc \in {"done", "raised"}

\* C2: every threaded mention event, whichever of the backend switch, the
\* thread fetch, the model calls, the document creation and the message
\* update fail, ends with exactly one status message posted, no other
\* message posted, and that message edited to the summary or to an error
\* description.
C2_OneStatusMessageEdited ==
    \A e \in Events :
        (Finished(e) /\ H(e).threaded /\ ~H(e).sayRaised) =>
            /\ H(e).statusPosts = 1
            /\ H(e).helpPosts = 0
            /\ H(e).statusMsg.kind \in {"summary", "error"}

\* C3 as stated: a failure of generate_summary or of extract_keywords
\* aborts the event: the failure reaches the error branch, the status
\* message is edited to an error description and no summary is delivered.
C3_ModelFailureAborts ==
    \A e \in Events :
        (Finished(e) /\ (H(e).genRaised # None \/ H(e).kwRaised # None)) =>
            /\ H(e).exc # None
            /\ Len(H(e).updates) >= 1
            /\ \A i \in 1..Len(H(e).updates) : H(e).updates[i].text.kind = "error"

\* C3 amended: a generate_summary failure aborts the event (it is the
\* exception of the error branch, the only edit of the status message is
\* the error description, nothing is saved); an extract_keywords failure
\* is caught in the save block: the save is skipped and the first edit of
\* the status message is the summary without the store confirmation.
C3_GenerateAbortsKeywordsRecovered ==
    \A e \in Events :
        Finished(e) =>
            /\ H(e).genRaised # None =>
                  /\ H(e).exc = H(e).genRaised
                  /\ H(e).genBy = None
                  /\ H(e).notionCalls = 0
                  /\ "extract_keywords" \notin H(e).calls
                  /\ Len(H(e).updates) = 1
                  /\ H(e).updates[1].text.kind = "error"
            /\ H(e).kwRaised # None =>
                  /\ H(e).notionCalls = 0
                  /\ Len(H(e).updates) >= 1
                  /\ H(e).updates[1].text.kind = "summary"
                  /\ ~H(e).updates[1].text.saved
                  /\ H(e).updates[1].ok =>
                        (H(e).exc = None /\ H(e).statusMsg = H(e).updates[1].text)

\* extract_keywords failed and the summary was delivered all the same
C3_Witness ==
    \E e \in Events :
        /\ H(e).pc = "done"
        /\ H(e).kwRaised # None
        /\ H(e).statusMsg.kind = "summary"

NotionFailed(e) == H(e).notionResult \in {"non_success", "transport_error"}

\* C4: a failed create-page call does not abort the event: the handler
\* goes on to edit the status message to the summary text, and the store
\* confirmation is in an edited text exactly when the call returned a page
\* URL.
C4_SaveFailureStillDelivers ==
    \A e \in Events :
        /\ NotionFailed(e) =>
              \/ H(e).pc \in {"respond", "update"} /\ H(e).exc = None
              \/ /\ Len(H(e).updates) >= 1
                 /\ H(e).updates[1].text.kind = "summary"
                 /\ H(e).updates[1].ok =>
                       (H(e).pc \in {"timing", "timing_read", "timing_del", "done"}
                          /\ H(e).statusMsg.kind = "summary")
        /\ \A i \in 1..Len(H(e).updates) :
              H(e).updates[i].text.kind = "summary" =>
                 (H(e).updates[i].text.saved <=> H(e).notionResult = "page_url")

\* the create-page call failed and the status message holds the summary
\* without the store confirmation
C4_Witness ==
    \E e \in Events :
        /\ H(e).pc = "done"
        /\ H(e).notionResult = "non_success"
        /\ H(e).statusMsg.kind = "summary"
        /\ ~H(e).statusMsg.saved

(***************************************************************************)
(* Strings: Python str as a sequence of one-character strings              *)
(***************************************************************************)

\* the characters of the class [A-Z0-9]
IdChars == {"A", "B", "C", "D", "E", "F", "G", "H", "I", "J", "K", "L", "M",
            "N", "O", "P", "Q", "R", "S", "T", "U", "V", "W", "X", "Y", "Z",
            "0", "1", "2", "3", "4", "5", "6", "7", "8", "9"}

\* the characters str.strip() removes: the 29 characters for which
\* str.isspace() holds.  A character that has no escape here is written by
\* its code point: "U+3000" is the one character IDEOGRAPHIC SPACE.
Whitespace ==
    {" ", "\t", "\n", "\r", "\f", "U+000B", "U+001C", "U+001D", "U+001E", "U+001F",
     "U+0085", "U+00A0", "U+1680", "U+2000", "U+2001", "U+2002", "U+2003",
     "U+2004", "U+2005", "U+2006", "U+2007", "U+2008", "U+2009", "U+200A",
     "U+2028", "U+2029", "U+202F", "U+205F", "U+3000"}

RECURSIVE IdRunEnd(_, _)
\* the first position at or after j that holds no [A-Z0-9] character
IdRunEnd(t, j) ==
    IF j <= Len(t) /\ t[j] \in IdChars THEN IdRunEnd(t, j + 1) ELSE j

\* the position of the ">" that ends a match of <@[A-Z0-9]+> starting at
\* position i, or 0 when the pattern does not match there
MatchEnd(t, i) ==
    IF i + 3 <= Len(t) /\ t[i] = "<" /\ t[i + 1] = "@" /\ t[i + 2] \in IdChars
    THEN LET k == IdRunEnd(t, i + 2) IN
         IF k <= Len(t) /\ t[k] = ">" THEN k ELSE 0
    ELSE 0

RECURSIVE FindAllFrom(_, _)
FindAllFrom(t, i) ==
    IF i > Len(t) THEN <<>>
    ELSE LET k == MatchEnd(t, i) IN
         IF k # 0 THEN <<SubSeq(t, i + 2, k - 1)>> \o FindAllFrom(t, k + 1)
         ELSE FindAllFrom(t, i + 1)

\* re.findall(r'<@([A-Z0-9]+)>', t): the ids of the matches, left to right
FindMentions(t) == FindAllFrom(t, 1)

RECURSIVE ReSubFrom(_, _)
ReSubFrom(t, i) ==
    IF i > Len(t) THEN <<>>
    ELSE LET k == MatchEnd(t, i) IN
         IF k # 0 THEN ReSubFrom(t, k + 1)
         ELSE <<t[i]>> \o ReSubFrom(t, i + 1)

\* re.sub(r'<@[A-Z0-9]+>', '', t)
ReSubMentions(t) == ReSubFrom(t, 1)

RECURSIVE ReplaceFrom(_, _, _, _)
ReplaceFrom(t, old, new, i) ==
    IF i > Len(t) THEN <<>>
    ELSE IF i + Len(old) - 1 <= Len(t) /\ SubSeq(t, i, i + Len(old) - 1) = old
    THEN new \o ReplaceFrom(t, old, new, i + Len(old))
    ELSE <<t[i]>> \o ReplaceFrom(t, old, new, i + 1)

\* the result of the replacement thrown away
ReplaceDiscarded(t, old, new) == t

\* t.replace(old, new) for a non-empty old
Replace(t, old, new) == ReplaceFrom(t, old, new, 1)

RECURSIVE LStrip(_)
LStrip(t) == IF t # <<>> /\ Head(t) \in Whitespace THEN LStrip(Tail(t)) ELSE t

RECURSIVE RStrip(_)
RStrip(t) ==
    IF t # <<>> /\ t[Len(t)] \in Whitespace THEN RStrip(SubSeq(t, 1, Len(t) - 1)) ELSE t

\* t.strip()
Strip(t) == RStrip(LStrip(t))

RECURSIVE JoinRange(_, _, _, _)
\* sep.join(parts[lo-1:hi]), computed by halves
JoinRange(parts, sep, lo, hi) ==
    IF lo > hi THEN <<>>
    ELSE IF lo = hi THEN parts[lo]
    ELSE LET mid == (lo + hi) \div 2 IN
         JoinRange(parts, sep, lo, mid) \o sep \o JoinRange(parts, sep, mid + 1, hi)

\* sep.join(parts)
Join(parts, sep) == JoinRange(parts, sep, 1, Len(parts))

\* old occurs in t
Contains(t, old) ==
    \E i \in 1..Len(t) : i + Len(old) - 1 <= Len(t) /\ SubSeq(t, i, i + Len(old) - 1) = old

(***************************************************************************)
(* Transcript Builder and Participant Extractor                            *)
(***************************************************************************)

U1 == <<"U", "1">>
U2 == <<"U", "2">>
BOT == <<"B", "O", "T">>

\* the user ids of the workspace; BOT is the bot's own id
UserIds == {U1, U2, BOT}

\* the real_name users_info returns
RealName(id) ==
    IF id = U1 THEN <<"A", "l", "i", "c", "e">>
    ELSE IF id = U2 THEN <<"B", "o", "b">>
    ELSE <<"B", "o", "t">>

\* the profile email users_info returns, empty when the profile has none
Email(id) == IF id = U1 THEN <<"a", "@", "x">> ELSE <<>>

\* f"<@{user_id}>"
Token(id) == <<"<", "@">> \o id \o <<">">>

\* f"User {user_id}"
FallbackName(id) == <<"U", "s", "e", "r", " ">> \o id

Msg(user, bot, text) == [user |-> user, bot_id |-> bot, text |-> text]

\* the raw messages threads are built from; an absent author is <<>>
RawMessages ==
    { Msg(<<>>, FALSE, <<"x">>),
      Msg(U1, FALSE, <<"<", "@", "B", "O", "T", ">", " ", "h", "e", "l", "l", "o">>),
      Msg(U1, FALSE, <<"h", "i", " ", "<", "@", "U", "2", ">">>),
      Msg(U2, FALSE, <<"<", "@", "B", "O", "T", ">">>),
      Msg(U2, TRUE, <<"x">>),
      Msg(U1, FALSE, <<"U+3000">>),
      Msg(U2, FALSE, <<"<", "@", "U", "1", ">", " ", "<", "@", "U", "1", ">">>) }

\* the longest thread
MaxMsgs == 3

Threads == UNION { [1..n -> RawMessages] : n \in 0..MaxMsgs }

\* client.users_info(user=id): the user record, or a raised error
UsersInfo(dir, id) ==
    IF id \in dir
    THEN [raised |-> FALSE, real_name |-> RealName(id), email |-> Email(id)]
    ELSE [raised |-> TRUE, real_name |-> <<>>, email |-> <<>>]

\* the call counter after one more users_info(id)
Count(look, id) == [look EXCEPT ![id] = @ + 1]

RECURSIVE ProcessMentionsLoop(_, _, _, _, _)
ProcessMentionsLoop(dir, mentions, k, text, look) ==
    IF k > Len(mentions) THEN [text |-> text, lookups |-> look]
    ELSE LET id == mentions[k]
             info == UsersInfo(dir, id)
         IN  ProcessMentionsLoop(dir, mentions, k + 1,
                 IF info.raised THEN text
                 ELSE Replace(text, Token(id), <<"@">> \o info.real_name),
                 Count(look, id))

\* process_mentions(text, client): the text with resolved mentions
\* replaced, and the users_info call counter
ProcessMentions(dir, text, look) ==
    ProcessMentionsLoop(dir, FindMentions(text), 1, text, look)

\* an author label that is the bare id when the lookup fails
AuthorNameBareId(dir, id) ==
    IF UsersInfo(dir, id).raised THEN id ELSE UsersInfo(dir, id).real_name

\* lines 241-252: the author label of a transcript line
AuthorName(dir, id) ==
    IF UsersInfo(dir, id).raised THEN FallbackName(id)
    ELSE UsersInfo(dir, id).real_name

\* lines 254-259: the message text format_messages_for_llm keeps
ProcessedText(dir, text, look) ==
    LET pm == ProcessMentions(dir, text, look) IN
    [text |-> Strip(ReSubMentions(pm.text)), resolved |-> pm.text,
     lookups |-> pm.lookups]

\* a skip test that looks at the author only
SkippedAuthorOnly(msg) == msg.user = <<>>

\* lines 236-239 and 301-304: the message is skipped
Skipped(msg) == msg.user = <<>> \/ msg.bot_id

\* the line put in front of the list
PrependLine(formatted, line) == <<line>> \o formatted

\* line 268: formatted_messages.append(line)
AppendLine(formatted, line) == Append(formatted, line)

\* lines 235-268: the body of the loop of format_messages_for_llm; lines
\* records, per message, the text process_mentions returned and the line
FormatBody(dir, f, look, msg) ==
    IF Skipped(msg)
    THEN [fmt |-> [f EXCEPT !.i = @ + 1,
                            !.lines = Append(@, [emitted |-> FALSE, line |-> <<>>,
                                                 resolved |-> <<>>])],
          lookups |-> look]
    ELSE LET cached == msg.user \in f.user_cache
             info == UsersInfo(dir, msg.user)
             look1 == IF cached THEN look ELSE Count(look, msg.user)
             cache1 == IF ~cached /\ ~info.raised
                       THEN f.user_cache \cup {msg.user} ELSE f.user_cache
             username == AuthorName(dir, msg.user)
             pt == ProcessedText(dir, msg.text, look1)
             line == username \o <<":", " ">> \o pt.text
         IN  IF pt.text = <<>>
             THEN [fmt |-> [f EXCEPT !.i = @ + 1, !.user_cache = cache1,
                              !.lines = Append(@, [emitted |-> FALSE, line |-> <<>>,
                                                   resolved |-> pt.resolved])],
                   lookups |-> pt.lookups]
             ELSE [fmt |-> [f EXCEPT !.i = @ + 1, !.user_cache = cache1,
                              !.formatted_messages = AppendLine(@, line),
                              !.lines = Append(@, [emitted |-> TRUE, line |-> line,
                                                   resolved |-> pt.resolved])],
                   lookups |-> pt.lookups]

\* a test that never finds the author
NeverProcessed(x, id) == FALSE

\* line 307: user_id in processed_users
AlreadyProcessed(x, id) == id \in x.processed_users

\* lines 300-331: the body of the loop of extract_participants_with_email
ExtractBody(dir, x, look, msg) ==
    IF Skipped(msg) \/ AlreadyProcessed(x, msg.user)
    THEN [ext |-> [x EXCEPT !.i = @ + 1], lookups |-> look]
    ELSE LET cached == msg.user \in x.user_cache
             info == UsersInfo(dir, msg.user)
         IN  [ext |-> [x EXCEPT !.i = @ + 1,
                         !.processed_users = @ \cup {msg.user},
                         !.user_cache = IF ~cached /\ ~info.raised
                                        THEN @ \cup {msg.user} ELSE @,
                         !.participants = Append(@,
                             [user_id |-> msg.user,
                              name |-> IF info.raised THEN FallbackName(msg.user)
                                       ELSE info.real_name,
                              email |-> info.email])],
              lookups |-> IF cached THEN look ELSE Count(look, msg.user)]

\* one request: a fetched thread and the ids users_info resolves
InitTranscript ==
    /\ messages \in Threads
    /\ directory \in SUBSET UserIds
    /\ lookups = [id \in UserIds |-> 0]
    /\ pcT = "format"
    /\ fmt = [i |-> 0, formatted_messages |-> <<>>, user_cache |-> {}, lines |-> <<>>]
    /\ thread_text = <<>>
    /\ ext = [i |-> 0, participants |-> <<>>, user_cache |-> {}, processed_users |-> {}]
    /\ InitBlocksIdle
    /\ InitPropsIdle
    /\ InitHandlerIdle
    /\ env = [anthropic_api_key |-> TRUE, azure_openai_api_key |-> FALSE,
              azure_openai_endpoint |-> FALSE]
    /\ svc = NewService("claude", env).svc
    /\ lastCall = NoCall

\* one iteration of the loop of format_messages_for_llm
FormatMessage ==
    /\ pcT = "format"
    /\ fmt.i < Len(messages)
    /\ LET r == FormatBody(directory, fmt, lookups, messages[fmt.i + 1]) IN
       /\ fmt' = r.fmt
       /\ lookups' = r.lookups
    /\ UNCHANGED <<messages, directory, pcT, thread_text, ext>>

\* line 270: the transcript is returned
FormatReturn ==
    /\ pcT = "format"
    /\ fmt.i = Len(messages)
    /\ thread_text' = Join(fmt.formatted_messages, <<"\n", "\n">>)
    /\ pcT' = "extract"
    /\ UNCHANGED <<messages, directory, lookups, fmt, ext>>

\* one iteration of the loop of extract_participants_with_email
ExtractMessage ==
    /\ pcT = "extract"
    /\ ext.i < Len(messages)
    /\ LET r == ExtractBody(directory, ext, lookups, messages[ext.i + 1]) IN
       /\ ext' = r.ext
       /\ lookups' = r.lookups
    /\ UNCHANGED <<messages, directory, pcT, fmt, thread_text>>

\* line 333: the participants are returned
ExtractReturn ==
    /\ pcT = "extract"
    /\ ext.i = Len(messages)
    /\ pcT' = "done"
    /\ UNCHANGED <<messages, directory, lookups, fmt, thread_text, ext>>

NextTranscript ==
    /\ \/ FormatMessage
       \/ FormatReturn
       \/ ExtractMessage
       \/ ExtractReturn
    /\ UNCHANGED llmVars
    /\ UNCHANGED handlerVars
    /\ UNCHANGED blockVars
    /\ UNCHANGED propVars

SpecTranscript == InitTranscript /\ [][NextTranscript]_vars

(***************************************************************************)
(* Properties of the Transcript Builder, checked under SpecTranscript      *)
(***************************************************************************)

\* the messages format_messages_for_llm has gone through and not skipped
Authored == { i \in 1..fmt.i : ~Skipped(messages[i]) }

\* the ids mentioned in a text
MentionedIds(text) == { FindMentions(text)[k] : k \in 1..Len(FindMentions(text)) }

\* C5: an inline reference token whose id users_info cannot resolve is
\* left unchanged: the raw token is still present in the transcript line
\* of its message.
C5_UnresolvedTokenKept ==
    \A i \in Authored :
        \A id \in MentionedIds(messages[i].text) \ {BOT} :
            id \notin directory =>
                /\ fmt.lines[i].emitted
                /\ Contains(fmt.lines[i].line, Token(id))

\* the raw messages of the scenario of the self-mention
SelfMentionThread ==
    <<Msg(<<>>, FALSE, <<"x">>),
      Msg(U1, FALSE, <<"<", "@", "B", "O", "T", ">", " ", "h", "e", "l", "l", "o">>)>>

\* C6: the token of the bot's own id is stripped with nothing put in its
\* place, whether or not users_info resolves the bot's id: the line of a
\* message holding the token is the line of the same message without the
\* token, and the scenario thread gives exactly the line "Alice: hello".
C6_SelfMentionStripped ==
    /\ \A i \in Authored :
          Contains(messages[i].text, Token(BOT)) =>
             LET rest == ProcessedText(directory,
                             Replace(messages[i].text, Token(BOT), <<>>), lookups).text
             IN  IF rest = <<>> THEN ~fmt.lines[i].emitted
                 ELSE /\ fmt.lines[i].emitted
                      /\ fmt.lines[i].line =
                            AuthorName(directory, messages[i].user) \o <<":", " ">> \o rest
    /\ (pcT \in {"extract", "done"} /\ messages = SelfMentionThread /\ U1 \in directory) =>
          thread_text = <<"A", "l", "i", "c", "e", ":", " ", "h", "e", "l", "l", "o">>

\* C7: within one request users_info is called at most once per user id,
\* counting the lookups of authors, of inline mentions and of participants,
\* failed ones included.
C7_OneLookupPerId ==
    \A id \in UserIds : lookups[id] <= 1

(***************************************************************************)
(* Document Serializer: convert_summary_to_notion_blocks                   *)
(***************************************************************************)

RECURSIVE SplitFrom(_, _, _)
SplitFrom(t, i, cur) ==
    IF i > Len(t) THEN <<cur>>
    ELSE IF t[i] = "\n" THEN <<cur>> \o SplitFrom(t, i + 1, <<>>)
    ELSE SplitFrom(t, i + 1, Append(cur, t[i]))

\* t.split("\n")
SplitLines(t) == SplitFrom(t, 1, <<>>)

\* t.startswith(prefix)
StartsWith(t, prefix) ==
    Len(t) >= Len(prefix) /\ SubSeq(t, 1, Len(prefix)) = prefix

RECURSIVE LStripChars(_, _)
LStripChars(t, cs) ==
    IF t # <<>> /\ Head(t) \in cs THEN LStripChars(Tail(t), cs) ELSE t

RECURSIVE RStripChars(_, _)
RStripChars(t, cs) ==
    IF t # <<>> /\ t[Len(t)] \in cs
    THEN RStripChars(SubSeq(t, 1, Len(t) - 1), cs) ELSE t

\* t.strip(chars)
StripChars(t, cs) == RStripChars(LStripChars(t, cs), cs)

Block(type, content) == [type |-> type, content |-> content]

\* line 535: the line is a heading line
IsHeading(line) == StartsWith(line, <<"#", "#">>)

\* line 568: the line is a bullet line
IsBullet(line) == ~IsHeading(line) /\ StartsWith(Strip(line), <<"-", " ">>)

\* line 573: the line is blank
IsBlank(line) == ~IsHeading(line) /\ ~IsBullet(line) /\ Strip(line) = <<>>

\* line 557: the text of a heading block
HeadingText(line) == Strip(StripChars(line, {"#", " "}))

\* line 569: the text of a bullet
BulletText(line) == Strip(SubSeq(Strip(line), 3, Len(Strip(line))))

\* a flush that emits the bullets after the first only
FlushTailOnly(bullet_points) ==
    [k \in 1..(Len(bullet_points) - 1) |->
        Block("bulleted_list_item", bullet_points[k + 1])]

\* lines 537-553, 575-591, 615-631: the bullet blocks of the accumulated run
FlushBullets(bullet_points) ==
    [k \in 1..Len(bullet_points) |-> Block("bulleted_list_item", bullet_points[k])]

\* a conversion that emits a text line also inside a bullet run
ParagraphOfAnywhere(line, bullet_points) ==
    IF ~StartsWith(Strip(line), <<"-">>)
    THEN <<Block("paragraph", Strip(line))>>
    ELSE <<>>

\* a conversion that emits a text line as it is, untrimmed
ParagraphOfUntrimmed(line, bullet_points) ==
    IF ~StartsWith(Strip(line), <<"-">>) /\ bullet_points = <<>>
    THEN <<Block("paragraph", line)>>
    ELSE <<>>

\* lines 603-612: the blocks emitted for a line that is no heading, no
\* bullet and not blank
ParagraphOf(line, bullet_points) ==
    IF ~StartsWith(Strip(line), <<"-">>) /\ bullet_points = <<>>
    THEN <<Block("paragraph", Strip(line))>>
    ELSE <<>>

\* lines 533-612: the body of the loop: the blocks emitted for the line and
\* the bullets accumulated after it
ConvertLineBody(line, bullet_points) ==
    IF IsHeading(line)
    THEN [emitted |-> FlushBullets(bullet_points)
                         \o <<Block("heading_2", HeadingText(line))>>,
          bullet_points |-> <<>>]
    ELSE IF IsBullet(line)
    THEN [emitted |-> <<>>, bullet_points |-> Append(bullet_points, BulletText(line))]
    ELSE IF IsBlank(line)
    THEN [emitted |-> FlushBullets(bullet_points) \o <<Block("paragraph", <<>>)>>,
          bullet_points |-> <<>>]
    ELSE [emitted |-> ParagraphOf(line, bullet_points), bullet_points |-> bullet_points]

\* the lines summaries are built from
SummaryLines ==
    { <<"#", "#", " ", "T">>,
      <<"-", " ", "a">>,
      <<" ", "-", " ", "b">>,
      <<>>,
      <<" ", "x", " ">>,
      <<"U+3000">>,
      <<"-", "x">>,
      <<"-", " ">>,
      <<" ", "#", "#", " ", "h">> }

\* the longest summary, in lines
MaxLines == 3

\* the summary of the scenario, its headings transliterated
ScenarioSummary ==
    <<"#", "#", " ", "s", "h", "u", "d", "a", "i", "\n", "-", " ", "a", "\n", "-", " ", "b", "\n", "\n", "#", "#", " ", "k", "e", "t", "s", "u", "r", "o", "n", "\n", "-", " ", "c">>

Summaries ==
    { Join(ls, <<"\n">>) : ls \in UNION { [1..n -> SummaryLines] : n \in 1..MaxLines } }
        \cup {ScenarioSummary}

InitBlocks ==
    /\ summary \in Summaries
    /\ pcB = "loop"
    /\ cb = [i |-> 0, blocks |-> <<>>, bullet_points |-> <<>>, trace |-> <<>>,
             final |-> <<>>]
    /\ InitPropsIdle
    /\ InitHandlerIdle
    /\ InitTranscriptIdle
    /\ env = [anthropic_api_key |-> TRUE, azure_openai_api_key |-> FALSE,
              azure_openai_endpoint |-> FALSE]
    /\ svc = NewService("claude", env).svc
    /\ lastCall = NoCall

\* one iteration of the loop over summary.split("\n"); trace keeps, per
\* line, the bullets accumulated when it was read and the blocks it emitted
ConvertLine ==
    /\ pcB = "loop"
    /\ cb.i < Len(SplitLines(summary))
    /\ LET line == SplitLines(summary)[cb.i + 1]
           r == ConvertLineBody(line, cb.bullet_points)
       IN  cb' = [cb EXCEPT !.i = @ + 1,
                            !.blocks = @ \o r.emitted,
                            !.bullet_points = r.bullet_points,
                            !.trace = Append(@, [line |-> line,
                                                 before |-> cb.bullet_points,
                                                 emitted |-> r.emitted])]
    /\ UNCHANGED <<summary, pcB>>

\* lines 614-633: the last run is flushed and the blocks are returned;
\* bullet_points is left as it is
ConvertReturn ==
    /\ pcB = "loop"
    /\ cb.i = Len(SplitLines(summary))
    /\ cb' = [cb EXCEPT !.blocks = @ \o FlushBullets(cb.bullet_points),
                         !.final = FlushBullets(cb.bullet_points)]
    /\ pcB' = "done"
    /\ UNCHANGED summary

NextBlocks ==
    /\ \/ ConvertLine
       \/ ConvertReturn
    /\ UNCHANGED llmVars
    /\ UNCHANGED handlerVars
    /\ UNCHANGED transcriptVars
    /\ UNCHANGED propVars

SpecBlocks == InitBlocks /\ [][NextBlocks]_vars

(***************************************************************************)
(* Properties of the block conversion, checked under SpecBlocks            *)
(***************************************************************************)

\* the lines of the summary being converted
Lines == SplitLines(summary)

\* C8 as stated: a non-blank line that starts with neither the heading
\* marker nor the bullet marker, read while no bullet run is accumulated,
\* is emitted as one paragraph block holding the trimmed line.
C8_PlainLineParagraph ==
    \A i \in 1..Len(cb.trace) :
        LET t == cb.trace[i] IN
        ( /\ Strip(t.line) # <<>>
          /\ ~StartsWith(t.line, <<"#", "#">>)
          /\ ~StartsWith(t.line, <<"-", " ">>)
          /\ ~StartsWith(Strip(t.line), <<"-", " ">>)
          /\ t.before = <<>> ) =>
            t.emitted = <<Block("paragraph", Strip(t.line))>>

\* C8 amended: the paragraph is emitted when, in addition, the trimmed
\* line does not start with a hyphen; a line whose trimmed text starts with
\* a hyphen without being a bullet line emits no block and leaves the
\* accumulated bullets as they were.
C8_PlainLineParagraphUnlessHyphen ==
    \A i \in 1..Len(cb.trace) :
        LET t == cb.trace[i] IN
        ( /\ Strip(t.line) # <<>>
          /\ ~StartsWith(t.line, <<"#", "#">>)
          /\ ~StartsWith(Strip(t.line), <<"-", " ">>) ) =>
            /\ (~StartsWith(Strip(t.line), <<"-">>) /\ t.before = <<>>) =>
                  t.emitted = <<Block("paragraph", Strip(t.line))>>
            /\ StartsWith(Strip(t.line), <<"-">>) =>
                  /\ t.emitted = <<>>
                  /\ (IF i < Len(cb.trace) THEN cb.trace[i + 1].before
                      ELSE cb.bullet_points) = t.before

\* a padded text line was read with no bullets accumulated and came out as
\* a paragraph of its trimmed text
C8_Witness ==
    \E i \in 1..Len(cb.trace) :
        /\ cb.trace[i].line = <<" ", "x", " ">>
        /\ cb.trace[i].before = <<>>
        /\ cb.trace[i].emitted = <<Block("paragraph", <<"x">>)>>

IsBulletBlock(b) == b.type = "bulleted_list_item"

\* the bullet blocks of the bullet lines among the first n lines, in order
BulletBlocksOfLines(n) ==
    LET sel == SelectSeq(SubSeq(Lines, 1, n), IsBullet) IN
    [k \in 1..Len(sel) |-> Block("bulleted_list_item", BulletText(sel[k]))]

\* lines i..j are all bullet lines
BulletRun(i, j) == \A k \in i..j : IsBullet(Lines[k])

\* the last n blocks emitted before the last m
BlocksBeforeLast(n, m) ==
    SubSeq(cb.blocks, Len(cb.blocks) - m - n + 1, Len(cb.blocks) - m)

\* the block of a heading line or of a blank line
OwnBlock(line) ==
    IF IsHeading(line) THEN Block("heading_2", HeadingText(line))
    ELSE Block("paragraph", <<>>)

\* the blocks of the scenario
ScenarioBlocks ==
    << Block("heading_2", <<"s", "h", "u", "d", "a", "i">>),
       Block("bulleted_list_item", <<"a">>),
       Block("bulleted_list_item", <<"b">>),
       Block("paragraph", <<>>),
       Block("heading_2", <<"k", "e", "t", "s", "u", "r", "o", "n">>),
       Block("bulleted_list_item", <<"c">>) >>

\* C9: the bullet lines come out as bullet blocks, one each, in order and
\* with the marker stripped; a run of N consecutive bullet lines is in the
\* output right before the block of the heading or blank line that ends
\* it, and is the end of the output when the input ends with it; the
\* scenario summary gives exactly the six blocks of the scenario.
C9_BulletRunsFlushed ==
    /\ (pcB = "loop" /\ cb.i >= 1 /\ (IsHeading(Lines[cb.i]) \/ IsBlank(Lines[cb.i]))) =>
          /\ cb.bullet_points = <<>>
          /\ SelectSeq(cb.blocks, IsBulletBlock) = BulletBlocksOfLines(cb.i)
          /\ cb.blocks[Len(cb.blocks)] = OwnBlock(Lines[cb.i])
          /\ \A i \in 1..(cb.i - 1) :
                BulletRun(i, cb.i - 1) =>
                   /\ Len(cb.blocks) >= cb.i - i + 1
                   /\ BlocksBeforeLast(cb.i - i, 1) =
                         [k \in 1..(cb.i - i) |->
                             Block("bulleted_list_item", BulletText(Lines[i + k - 1]))]
    /\ pcB = "done" =>
          /\ SelectSeq(cb.blocks, IsBulletBlock) = BulletBlocksOfLines(Len(Lines))
          /\ \A i \in 1..Len(Lines) :
                BulletRun(i, Len(Lines)) =>
                   /\ Len(cb.blocks) >= Len(Lines) - i + 1
                   /\ BlocksBeforeLast(Len(Lines) - i + 1, 0) =
                         [k \in 1..(Len(Lines) - i + 1) |->
                             Block("bulleted_list_item", BulletText(Lines[i + k - 1]))]
    /\ (pcB = "done" /\ summary = ScenarioSummary) => cb.blocks = ScenarioBlocks

\* the scenario summary was converted to the end
C9_Witness ==
    /\ pcB = "done"
    /\ summary = ScenarioSummary
    /\ Len(cb.blocks) = 6

(***************************************************************************)
(* Properties of concurrent handlers, checked under SpecConcurrent         *)
(***************************************************************************)

\* C11: the active-backend selector is updated atomically: in every
\* reachable state, also while one event is inside switch_provider and
\* another runs, the backend the selector names has an initialised client.
C11_SelectorNamesInitialisedClient ==
    ClientOf(svc, DispatchBackend(svc))

(* Properties of the transcript lines, checked under SpecTranscript *)
\* the text of message i is empty after mention processing and trimming
EmptyAfterProcessing(i) ==
    Strip(ReSubMentions(ProcessMentions(directory, messages[i].text, lookups).text)) = <<>>

\* C12: the Transcript Builder produces no line for a message that has no
\* author id or carries the bot flag, and none for a message whose text is
\* empty after mention processing and trimming; the transcript holds only
\* the lines of the other messages.
C12_NoLineForSkippedOrEmpty ==
    /\ \A i \in 1..fmt.i :
          (\/ messages[i].user = <<>>
           \/ messages[i].bot_id
           \/ EmptyAfterProcessing(i)) => ~fmt.lines[i].emitted
    /\ Len(fmt.formatted_messages)
          = Cardinality({i \in 1..fmt.i : fmt.lines[i].emitted})

\* a bot-flagged message and a message emptied by mention processing were
\* read without a line, next to a message that produced one
C12_Witness ==
    /\ pcT = "done"
    /\ \E i, j, k \in 1..fmt.i :
          /\ messages[i].bot_id /\ ~fmt.lines[i].emitted
          /\ messages[j].user # <<>> /\ ~messages[j].bot_id
          /\ EmptyAfterProcessing(j) /\ ~fmt.lines[j].emitted
          /\ fmt.lines[k].emitted

\* message i is authored, not automated, and keeps a non-empty text
Kept(i) ==
    /\ messages[i].user # <<>>
    /\ ~messages[i].bot_id
    /\ ~EmptyAfterProcessing(i)

\* the messages read so far that keep a line, and the position of the line
\* of message i among them
KeptSoFar == {i \in 1..fmt.i : Kept(i)}
Rank(i) == Cardinality({j \in KeptSoFar : j <= i})

\* C13: the transcript contains exactly one line per authored, non-automated
\* message whose processed text is non-empty, in the order of the messages.
C13_OneLinePerKeptMessageInOrder ==
    /\ Len(fmt.formatted_messages) = Cardinality(KeptSoFar)
    /\ \A i \in KeptSoFar :
          /\ fmt.lines[i].emitted
          /\ fmt.formatted_messages[Rank(i)] = fmt.lines[i].line
          /\ fmt.lines[i].line
                = AuthorName(directory, messages[i].user) \o <<":", " ">>
                  \o Strip(ReSubMentions(fmt.lines[i].resolved))
    /\ pcT \in {"extract", "done"}
          => thread_text = Join(fmt.formatted_messages, <<"\n", "\n">>)

\* two kept messages with different lines around a skipped one
C13_Witness ==
    /\ pcT = "done"
    /\ \E i, j, k \in 1..fmt.i :
          /\ i < j /\ j < k
          /\ Kept(i) /\ ~Kept(j) /\ Kept(k)
          /\ fmt.lines[i].line # fmt.lines[k].line
    /\ Len(fmt.formatted_messages) = 2

(* Properties of the participant records, checked under SpecTranscript *)
\* the first n messages that have an author id and no bot flag
AuthoredAmong(n) == { i \in 1..n : messages[i].user # <<>> /\ ~messages[i].bot_id }

\* the index of the first such message written by id
FirstAppearance(id) ==
    CHOOSE i \in AuthoredAmong(ext.i) :
        /\ messages[i].user = id
        /\ \A j \in AuthoredAmong(ext.i) : messages[j].user = id => i <= j

\* C14: the Participant Extractor emits exactly one record per distinct
\* author id of the authored, non-automated messages, never two records with
\* the same id, in the order of each id's first appearance.
C14_OneRecordPerAuthorInOrder ==
    LET P == ext.participants IN
    /\ { P[k].user_id : k \in 1..Len(P) }
          = { messages[i].user : i \in AuthoredAmong(ext.i) }
    /\ \A j, k \in 1..Len(P) : j # k => P[j].user_id # P[k].user_id
    /\ \A j, k \in 1..Len(P) :
          j < k => FirstAppearance(P[j].user_id) < FirstAppearance(P[k].user_id)

\* an author wrote before and after another author, and two records result
C14_Witness ==
    /\ pcT = "done"
    /\ Len(ext.participants) = 2
    /\ \E i, j, k \in AuthoredAmong(ext.i) :
          /\ i < j /\ j < k
          /\ messages[i].user = messages[k].user
          /\ messages[i].user # messages[j].user

\* C15: a users_info failure for an id aborts neither loop: both read every
\* message, a line of an author whose lookup fails is labelled "User <id>",
\* the record of such an author has that name and an empty email, and every
\* kept message still has its line and every author a record.
C15_LookupFailureNeverAborts ==
    LET P == ext.participants IN
    /\ pcT = "done" => fmt.i = Len(messages) /\ ext.i = Len(messages)
    /\ \A i \in KeptSoFar :
          /\ fmt.lines[i].emitted
          /\ StartsWith(fmt.lines[i].line,
                (IF messages[i].user \in directory
                 THEN RealName(messages[i].user)
                 ELSE FallbackName(messages[i].user)) \o <<":", " ">>)
    /\ \A i \in AuthoredAmong(ext.i) :
          \E k \in 1..Len(P) : P[k].user_id = messages[i].user
    /\ \A k \in 1..Len(P) :
          IF P[k].user_id \in directory
          THEN P[k].name = RealName(P[k].user_id) /\ P[k].email = Email(P[k].user_id)
          ELSE P[k].name = FallbackName(P[k].user_id) /\ P[k].email = <<>>

\* one author's lookup failed, another's succeeded, and both have a line
\* and a record
C15_Witness ==
    /\ pcT = "done"
    /\ Len(ext.participants) = 2
    /\ \E i, j \in KeptSoFar :
          /\ messages[i].user \notin directory
          /\ messages[j].user \in directory
          /\ fmt.lines[i].emitted /\ fmt.lines[j].emitted

(* Properties of process_mentions, checked under SpecTranscript *)
\* C20: for every token whose id users_info resolves, the text returned by
\* process_mentions holds no raw token of that id and holds "@" followed by
\* the display name instead, and process_mentions applied to the returned
\* text returns it unchanged.
C20_ResolvedTokensReplacedIdempotent ==
    \A i \in AuthoredAmong(fmt.i) :
        LET out == fmt.lines[i].resolved IN
        /\ \A id \in MentionedIds(messages[i].text) \cap directory :
              /\ ~Contains(out, Token(id))
              /\ Contains(out, <<"@">> \o RealName(id))
        /\ ProcessMentions(directory, out, lookups).text = out

\* a text with two tokens of a resolved id went through process_mentions,
\* and so did a text with a token of an id that is not resolved
C20_Witness ==
    /\ pcT = "done"
    /\ \E i, j \in AuthoredAmong(fmt.i) :
          /\ U1 \in directory
          /\ Len(SelectSeq(FindMentions(messages[i].text), LAMBDA id : id = U1)) = 2
          /\ fmt.lines[i].resolved # messages[i].text
          /\ \E id \in MentionedIds(messages[j].text) : id \notin directory
          /\ fmt.lines[j].resolved = messages[j].text

(* Properties of the fetch failure and of the mention outside a thread,    *)
(* checked under Spec                                                      *)
\* C16: when conversations_replies fails, the event is aborted: neither
\* generate_summary nor extract_keywords nor the Notion request is called
\* for it, and the one edit of the status message that follows carries the
\* error description.
C16_FetchFailureAborts ==
    \A e \in Events :
        H(e).fetchRaised =>
            /\ H(e).pc \in {"except", "done", "raised"}
            /\ H(e).calls \cap {"generate_summary", "extract_keywords"} = {}
            /\ H(e).genBy = None
            /\ H(e).notionCalls = 0
            /\ H(e).statusPosts = 1
            /\ H(e).pc # "except" =>
                  /\ Len(H(e).updates) = 1
                  /\ H(e).updates[1].text.kind = "error"
            /\ H(e).pc = "done" => H(e).statusMsg.kind = "error"

\* an event whose fetch failed has ended with the error put in its status
\* message, the document database being configured and asked for
C16_Witness ==
    \E e \in Events :
        /\ H(e).fetchRaised
        /\ H(e).pc = "done"
        /\ H(e).save_to_notion /\ notionConfigured
        /\ H(e).statusMsg.kind = "error"

\* C17: a mention event without thread timestamp, once handled, has made no
\* thread fetch, no users_info lookup, no model call and no Notion request,
\* has posted and edited no status message, and has sent exactly one help
\* message.
C17_NoThreadOnlyHelp ==
    \A e \in Events :
        (Finished(e) /\ ~H(e).threaded /\ ~H(e).sayRaised) =>
            /\ H(e).calls = {}
            /\ H(e).genBy = None
            /\ H(e).notionCalls = 0
            /\ H(e).statusPosts = 0
            /\ H(e).updates = <<>>
            /\ H(e).helpPosts = 1

(***************************************************************************)
(* Document Serializer: the property map of save_summary_to_notion         *)
(***************************************************************************)

\* line 458: name[:100]
NameLimit == 100

\* line 462: participant_names[:100]
TagLimit == 100

\* the longest participant list
MaxParticipants == 102

\* t[:n]
Take(t, n) == SubSeq(t, 1, IF Len(t) < n THEN Len(t) ELSE n)

DigitChars == <<"0", "1", "2", "3", "4", "5", "6", "7", "8", "9">>

RECURSIVE Digits(_)
\* str(k) for k >= 0
Digits(k) ==
    IF k < 10 THEN <<DigitChars[k + 1]>>
    ELSE Digits(k \div 10) \o <<DigitChars[(k % 10) + 1]>>

\* n copies of the character c
Repeat(c, n) == [j \in 1..n |-> c]

\* the display names of the participant lists: all short; the second one
\* empty; the first and the third long, of NameLimit + 1 and NameLimit
\* characters; both of these
NameShapes == {"short", "blank", "long", "mixed"}

\* the emails of the participant lists: every other participant has one,
\* none has, all have
EmailShapes == {"odd", "none", "all"}

ShortName(k) == <<"P">> \o Digits(k)

PersonName(shape, k) ==
    IF shape \in {"blank", "mixed"} /\ k = 2 THEN <<>>
    ELSE IF shape \in {"long", "mixed"} /\ k = 1
         THEN ShortName(k) \o Repeat("x", NameLimit + 1 - Len(ShortName(k)))
    ELSE IF shape \in {"long", "mixed"} /\ k = 3
         THEN ShortName(k) \o Repeat("x", NameLimit - Len(ShortName(k)))
    ELSE ShortName(k)

PersonEmail(shape, k) ==
    IF shape = "all" \/ (shape = "odd" /\ k % 2 = 1)
    THEN <<"e">> \o Digits(k) \o <<"@", "x">>
    ELSE <<>>

\* a record as extract_participants_with_email builds it (lines 327-331)
Person(ns, es, k) ==
    [user_id |-> <<"U">> \o Digits(k), name |-> PersonName(ns, k),
     email |-> PersonEmail(es, k)]

\* the lengths of the participant lists: short ones and those around TagLimit
Sizes == (0..3) \cup ((TagLimit - 1)..MaxParticipants)

ParticipantLists ==
    { [k \in 1..n |-> Person(ns, es, k)] :
        n \in Sizes, ns \in NameShapes, es \in EmailShapes }

\* lines 370-402: the keys every property map has (title, channel, save
\* date, thread date, thread URL)
BaseKeys == {"title", "channel", "saved_at", "thread_date", "thread_url"}

\* the keywords argument: the default "" or the text extract_keywords
\* returned (line 137 of the handler)
KeywordInputs == {<<>>, <<"a", ",", " ", "b">>}

\* lines 417 and 449: participants and isinstance(participants, list)
ParticipantsGiven == participants # <<>>

\* a test that takes every participant as having an email
HasEmailAlways(person) == TRUE

\* line 423: person.get("email")
HasEmail(person) == person.email # <<>>

\* line 426: f"{name} ({email})"
ContactEntry(person) == person.name \o <<" ", "(">> \o person.email \o <<")">>

\* a slice that keeps the whole list
CapTagsNone(names) == names

\* line 462: participant_names[:100]
CapTags(names) == Take(names, TagLimit)

InitProperties ==
    /\ participants \in ParticipantLists
    /\ pcP = "keywords"
    /\ \E kw \in KeywordInputs :
          props = [i |-> 0, keywords |-> kw, participant_emails |-> <<>>,
                   participant_names |-> <<>>, keys |-> BaseKeys,
                   keyword_text |-> <<>>, participant_text |-> <<>>,
                   multi_select |-> <<>>]
    /\ InitHandlerIdle
    /\ InitTranscriptIdle
    /\ InitBlocksIdle
    /\ env = [anthropic_api_key |-> TRUE, azure_openai_api_key |-> FALSE,
              azure_openai_endpoint |-> FALSE]
    /\ svc = NewService("claude", env).svc
    /\ lastCall = NoCall

\* lines 404-414: the keyword property is added if keywords is not empty
KeywordsStep ==
    /\ pcP = "keywords"
    /\ props' = IF props.keywords # <<>>
                THEN [props EXCEPT !.keys = @ \cup {"keywords"},
                                   !.keyword_text = props.keywords]
                ELSE props
    /\ pcP' = "emails"
    /\ UNCHANGED participants

\* line 417 false: the contact text block is skipped
EmailsSkip ==
    /\ pcP = "emails"
    /\ ~ParticipantsGiven
    /\ pcP' = "names"
    /\ UNCHANGED <<participants, props>>

\* lines 422-426: one iteration of the loop over the participants
EmailsStep ==
    /\ pcP = "emails"
    /\ ParticipantsGiven
    /\ props.i < Len(participants)
    /\ LET person == participants[props.i + 1] IN
       props' = [props EXCEPT !.i = @ + 1,
                    !.participant_emails =
                        IF HasEmail(person) THEN Append(@, ContactEntry(person)) ELSE @]
    /\ UNCHANGED <<participants, pcP>>

\* lines 429-444: the contact text property is added if the list is not empty
EmailsFinish ==
    /\ pcP = "emails"
    /\ ParticipantsGiven
    /\ props.i = Len(participants)
    /\ props' = IF props.participant_emails # <<>>
                THEN [props EXCEPT !.i = 0,
                         !.keys = @ \cup {"participant_info"},
                         !.participant_text = Join(props.participant_emails, <<",", " ">>)]
                ELSE [props EXCEPT !.i = 0]
    /\ pcP' = "names"
    /\ UNCHANGED participants

\* line 449 false: the tag block is skipped
NamesSkip ==
    /\ pcP = "names"
    /\ ~ParticipantsGiven
    /\ pcP' = "done"
    /\ UNCHANGED <<participants, props>>

\* lines 454-458: one iteration of the loop over the participants
NamesStep ==
    /\ pcP = "names"
    /\ ParticipantsGiven
    /\ props.i < Len(participants)
    /\ LET name == participants[props.i + 1].name IN
       props' = [props EXCEPT !.i = @ + 1,
                    !.participant_names =
                        IF name # <<>> THEN Append(@, Take(name, NameLimit)) ELSE @]
    /\ UNCHANGED <<participants, pcP>>

\* lines 460-463: the tag property is added if the list is not empty
NamesFinish ==
    /\ pcP = "names"
    /\ ParticipantsGiven
    /\ props.i = Len(participants)
    /\ props' = IF props.participant_names # <<>>
                THEN [props EXCEPT !.keys = @ \cup {"participants"},
                         !.multi_select = CapTags(props.participant_names)]
                ELSE props
    /\ pcP' = "done"
    /\ UNCHANGED participants

NextProperties ==
    /\ \/ KeywordsStep
       \/ EmailsSkip
       \/ EmailsStep
       \/ EmailsFinish
       \/ NamesSkip
       \/ NamesStep
       \/ NamesFinish
    /\ UNCHANGED llmVars
    /\ UNCHANGED handlerVars
    /\ UNCHANGED transcriptVars
    /\ UNCHANGED blockVars

SpecProperties == InitProperties /\ [][NextProperties]_vars

(* Properties of the property map, checked under SpecProperties *)
\* the participants that have an email, in participant order
WithEmail == SelectSeq(participants, LAMBDA p : p.email # <<>>)

\* C18: the property map has the participant contact text key if and only
\* if some participant has a non-empty email; its value then joins
\* "Name (email)" for exactly the participants with an email, in
\* participant order.
C18_ContactTextIffEmail ==
    pcP \in {"names", "done"} =>
        /\ "participant_info" \in props.keys <=> WithEmail # <<>>
        /\ "participant_info" \in props.keys =>
              props.participant_text
                 = Join([k \in 1..Len(WithEmail) |->
                            WithEmail[k].name \o <<" ", "(">> \o WithEmail[k].email
                               \o <<")">>],
                        <<",", " ">>)

\* a map with the contact text, built from a list in which participants
\* without email stand between participants with one
C18_Witness ==
    /\ pcP = "done"
    /\ "participant_info" \in props.keys
    /\ Len(WithEmail) >= 2
    /\ \E k \in 1..Len(participants) : participants[k].email = <<>>
    /\ \E k \in 1..Len(participants) : participants[k].name = <<>>

\* the tag list of the finished map, empty when the map has no tag property
Tags == props.multi_select

\* the first n entries of a list of names, each cut to 100 characters
FirstNamesCut(names, n) ==
    [k \in 1..(IF Len(names) < n THEN Len(names) ELSE n) |-> Take(names[k], 100)]

\* C19 as stated: the tag list has at most 100 entries of at most 100
\* characters: the display names of the first 100 participants, each cut to
\* 100 characters, in participant order; the property is absent when the
\* list is empty.
C19_TagsOfFirstHundred ==
    pcP = "done" =>
        /\ Len(Tags) <= 100
        /\ \A k \in 1..Len(Tags) : Len(Tags[k]) <= 100
        /\ Tags = FirstNamesCut([k \in 1..Len(participants) |-> participants[k].name], 100)
        /\ "participants" \in props.keys <=> Tags # <<>>

\* the non-empty display names, in participant order
NonEmptyNames ==
    LET named == SelectSeq(participants, LAMBDA p : p.name # <<>>) IN
    [k \in 1..Len(named) |-> named[k].name]

\* C19, amended: the tag list has at most 100 entries of at most 100
\* characters: the first 100 of the non-empty display names, each cut to
\* 100 characters, in participant order; a participant with an empty display
\* name has no entry, and the property is absent when the list is empty.
C19_TagsOfFirstHundredNamed ==
    pcP = "done" =>
        /\ Len(Tags) <= 100
        /\ \A k \in 1..Len(Tags) : Len(Tags[k]) <= 100
        /\ Tags = FirstNamesCut(NonEmptyNames, 100)
        /\ "participants" \in props.keys <=> Tags # <<>>

\* more than 100 named participants, one of the first 100 participants
\* without a name and one with a name of more than 100 characters: the
\* list is capped and its first entry is cut
C19_Witness ==
    /\ pcP = "done"
    /\ Len(NonEmptyNames) > 100
    /\ \E k \in 1..100 : participants[k].name = <<>>
    /\ Len(participants[1].name) > 100
    /\ Len(Tags) = 100
    /\ Tags[1] # participants[1].name
    /\ "participants" \in props.keys

(* Properties of lines read inside a bullet run, checked under SpecBlocks *)
\* the bullets accumulated right after line i of the trace was read
BulletsAfter(i) ==
    IF i < Len(cb.trace) THEN cb.trace[i + 1].before
    ELSE cb.bullet_points

\* C21: a non-blank line that is neither a heading line nor a bullet line
\* and is read while bullets are accumulated is dropped: it emits no block
\* and the accumulated bullets stay as they were, so the run goes on and
\* the output gets nothing from the line.
C21_LineInsideRunDropped ==
    \A i \in 1..Len(cb.trace) :
        LET t == cb.trace[i] IN
        ( /\ Strip(t.line) # <<>>
          /\ ~StartsWith(t.line, <<"#", "#">>)
          /\ ~StartsWith(Strip(t.line), <<"-", " ">>)
          /\ t.before # <<>> ) =>
            /\ t.emitted = <<>>
            /\ BulletsAfter(i) = t.before
            /\ BulletsAfter(i) # <<>>

\* the text line " x " was read after the bullet "- a" and the conversion
\* ended with the block of the bullet alone
C21_Witness ==
    /\ pcB = "done"
    /\ Len(cb.trace) = 2
    /\ cb.trace[1].line = <<"-", " ", "a">>
    /\ cb.trace[2].line = <<" ", "x", " ">>
    /\ cb.trace[2].before = <<<<"a">>>>
    /\ cb.blocks = <<Block("bulleted_list_item", <<"a">>)>>

(* Properties of the Notion request and of the request table, checked     *)
(* under Spec                                                              *)
\* C22: for each event save_summary_to_notion is called at most once, also
\* when the request fails, and it and extract_keywords are called only if
\* the mention text has the save token, the Notion credentials are set and
\* generate_summary has returned a summary.
C22_SaveOnceAfterSummary ==
    \A e \in Events :
        /\ H(e).notionCalls <= 1
        /\ (H(e).notionCalls > 0 \/ "extract_keywords" \in H(e).calls) =>
              /\ H(e).save_to_notion
              /\ notionConfigured
              /\ "generate_summary" \in H(e).calls
              /\ H(e).genBy # None
              /\ H(e).genRaised = None
        /\ H(e).notionCalls > 0 => "extract_keywords" \in H(e).calls /\ H(e).kwRaised = None

\* an event whose one Notion request failed has ended, the summary
\* delivered, with no second request
C22_Witness ==
    \E e \in Events :
        /\ Finished(e)
        /\ H(e).save_to_notion /\ notionConfigured
        /\ "extract_keywords" \in H(e).calls
        /\ H(e).notionCalls = 1
        /\ H(e).notionResult \in {"non_success", "transport_error"}

\* C25: once the handling of an event has ended, on the success path, on an
\* error path or on the help path, the request table holds no entry for
\* its request id.
C25_NoEntryAfterHandling ==
    \A e \in Events :
        Finished(e) => H(e).request_id \notin request_times

(* Properties of the backend an event uses, checked under SpecConcurrent *)
\* C23: the backend named in the "Generated by" footer of the summary an
\* event delivers is the backend that generated the summary of that event,
\* whatever the other event switches in between.
C23_FooterNamesGeneratingBackend ==
    \A e \in Events :
        H(e).response_text.kind = "summary" =>
            H(e).response_text.footer = H(e).genBy

\* C24: the summary of a threaded mention whose text has a use-backend
\* token is generated by the backend the token names, whatever the other
\* event switches between the switch and the generate_summary call.
C24_TokenBackendGenerates ==
    \A e \in Events :
        (H(e).threaded /\ H(e).switch_to # None /\ H(e).genBy # None) =>
            H(e).genBy = H(e).switch_to

====
